---- MODULE Spec2Model ----
(***************************************************************************)
(* Cubic spline signed-distance evaluator of sdf/spline.go:                *)
(*   TriDiagonal, CubicPolynomial, CubicSpline, CubicSplineSDF2.           *)
(*                                                                         *)
(* Numbers.  A float64 is modelled by an exact rational <<n, d>> in lowest *)
(* terms with d > 0, or by one of the IEEE specials: NaN = <<0,0>>,        *)
(* +Inf = <<1,0>>, -Inf = <<-1,0>>.  Arithmetic is exact (no rounding);    *)
(* division by zero and operations on the specials follow IEEE 754, with   *)
(* signed zeros not distinguished.                                         *)
(***************************************************************************)
EXTENDS Integers, Sequences, FiniteSets, TLC

\* ------------------------------------------------------------------------
\* float64 arithmetic (Go's +, -, *, /, <, on float64)
\* ------------------------------------------------------------------------

NaN == <<0, 0>>
PInf == <<1, 0>>
NInf == <<-1, 0>>

IsNaN(x) == x = NaN
IsFin(x) == x[2] # 0

IAbs(n) == IF n < 0 THEN -n ELSE n
Sign(n) == IF n < 0 THEN -1 ELSE IF n > 0 THEN 1 ELSE 0

RECURSIVE Gcd(_, _)
Gcd(a, b) == IF b = 0 THEN a ELSE Gcd(b, a % b)

\* the rational n/d (d # 0) in lowest terms with a positive denominator
Norm(n, d) ==
  LET g == Gcd(IAbs(n), IAbs(d))
      s == IF d < 0 THEN -1 ELSE 1
  IN  <<s * (n \div g), s * (d \div g)>>

\* the values of a float64 (pairs with a zero denominator: the specials)
Float == Int \X Int

\* float64(i) for an int i
FromInt(i) == <<i, 1>>

Zero == <<0, 1>>
One == <<1, 1>>

\* F applied to the value of e (e is evaluated once, before F is applied)
Once(e, F(_)) == CHOOSE r \in {F(v) : v \in {e}} : TRUE

\* The operations are functions, applied through the operators after them.
FNegF[x \in Float] == <<-x[1], x[2]>>

FAddF[x \in Float, y \in Float] ==
  IF IsFin(x) /\ IsFin(y)
  THEN LET g == Gcd(x[2], y[2])
       IN  Norm(x[1] * (y[2] \div g) + y[1] * (x[2] \div g), x[2] * (y[2] \div g))
  ELSE IF IsNaN(x) \/ IsNaN(y) THEN NaN
  ELSE IF IsFin(x) THEN y
  ELSE IF IsFin(y) THEN x
  ELSE IF x = y THEN x ELSE NaN

FMulF[x \in Float, y \in Float] ==
  IF IsFin(x) /\ IsFin(y)
  THEN LET a == Norm(x[1], y[2])
           b == Norm(y[1], x[2])
       IN  <<a[1] * b[1], a[2] * b[2]>>
  ELSE IF IsNaN(x) \/ IsNaN(y) THEN NaN
  ELSE IF x[1] = 0 \/ y[1] = 0 THEN NaN
  ELSE <<Sign(x[1]) * Sign(y[1]), 0>>

FDivF[x \in Float, y \in Float] ==
  IF IsNaN(x) \/ IsNaN(y) THEN NaN
  ELSE IF IsFin(y)
  THEN IF y[1] = 0
       THEN (IF IsFin(x) /\ x[1] = 0 THEN NaN ELSE <<Sign(x[1]), 0>>)
       ELSE FMulF[x, Norm(y[2], y[1])]
  ELSE IF IsFin(x) THEN Zero ELSE NaN

\* x < y; false when either side is NaN
FLtF[x \in Float, y \in Float] ==
  IF IsNaN(x) \/ IsNaN(y) THEN FALSE
  ELSE IF IsFin(x) /\ IsFin(y) THEN x[1] * y[2] < y[1] * x[2]
  ELSE IF IsFin(x) THEN y = PInf
  ELSE IF IsFin(y) THEN x = NInf
  ELSE x = NInf /\ y = PInf

FNeg(x) == FNegF[x]
FAdd(x, y) == FAddF[x, y]
FSub(x, y) == FAddF[x, FNegF[y]]
FMul(x, y) == FMulF[x, y]
FDiv(x, y) == FDivF[x, y]
FLt(x, y) == FLtF[x, y]
FGt(x, y) == FLtF[y, x]
FLe(x, y) == FLtF[x, y] \/ (x = y /\ ~IsNaN(x))

\* Abs, Clamp, ZeroSmall and EPSILON belong to the package's utilities.
AbsF[x \in Float] == <<IAbs(x[1]), x[2]>>

Abs(x) == AbsF[x]

\* Clamp x between a and b; a NaN passes through (both comparisons false)
ClampF[x \in Float, a \in Float, b \in Float] ==
  IF FLt(x, a) THEN a ELSE IF FGt(x, b) THEN b ELSE x

Clamp(x, a, b) == ClampF[x, a, b]

\* The fixed small fraction below which a coefficient is snapped to zero.
EPSILON == <<1, 1000>>

\* x, or zero when |x| is smaller than the fraction epsilon of y
ZeroSmallF[x \in Float, y \in Float, epsilon \in Float] ==
  IF FLt(Abs(x), FMul(epsilon, y)) THEN Zero ELSE x

ZeroSmall(x, y, epsilon) == ZeroSmallF[x, y, epsilon]

\* ------------------------------------------------------------------------
\* TriDiagonal: solve m.x = d.  m is a sequence of rows <<X, Y, Z>> (sub,
\* main, super diagonal); Go's index i is TLA+'s i + 1.
\* ------------------------------------------------------------------------

Panic(msg) == [panic |-> msg, x |-> <<>>]

\* the elimination loop from i on: cp and x hold c-prime and d-prime so far
RECURSIVE Eliminate(_, _, _, _, _)
Eliminate(m, d, i, cp, x) ==
  IF i >= Len(m) THEN [panic |-> "", cp |-> cp, x |-> x]
  ELSE LET denom == FSub(m[i + 1][2], FMul(m[i + 1][1], cp[i]))
       IN  IF denom = Zero
           THEN [panic |-> "denom == 0", cp |-> cp, x |-> x]
           ELSE Once(<<Append(cp, FDiv(m[i + 1][3], denom)),
                       Append(x, FDiv(FSub(d[i + 1], FMul(m[i + 1][1], x[i])), denom))>>,
                     LAMBDA v : Eliminate(m, d, i + 1, v[1], v[2]))

\* the back substitution loop as a slip in the index would have it
RECURSIVE BackSubstMut(_, _, _)
BackSubstMut(cp, x, i) ==
  IF i < 0 THEN x
  ELSE Once([x EXCEPT ![i + 1] = FSub(x[i + 1], FMul(cp[i + 1], x[i + 1]))],
            LAMBDA v : BackSubstMut(cp, v, i - 1))

\* the back substitution loop from i down to 0
RECURSIVE BackSubst(_, _, _)
BackSubst(cp, x, i) ==
  IF i < 0 THEN x
  ELSE Once([x EXCEPT ![i + 1] = FSub(x[i + 1], FMul(cp[i + 1], x[i + 2]))],
            LAMBDA v : BackSubst(cp, v, i - 1))

\* the sanity check on the end rows, as a slip would have it: only row 0
BoundaryOkMut(m) == m[1][1] = Zero

BoundaryOk(m) == m[1][1] = Zero /\ m[Len(m)][3] = Zero

TriDiagonal(m, d) ==
  LET n == Len(m) IN
  IF Len(d) # n THEN Panic("bad sizes rows(m) != rows(d)")
  ELSE IF n = 0 THEN Panic("index out of range")
  ELSE IF ~BoundaryOk(m) THEN Panic("bad values for tridiagonal matrix")
  ELSE IF m[1][2] = Zero THEN Panic("m[0].Y == 0")
  ELSE Once(Eliminate(m, d, 1, <<FDiv(m[1][3], m[1][2])>>, <<FDiv(d[1], m[1][2])>>),
            LAMBDA e : IF e.panic # "" THEN Panic(e.panic)
                       ELSE [panic |-> "", x |-> BackSubst(e.cp, e.x, n - 2)])

\* ------------------------------------------------------------------------
\* CubicPolynomial: a + b t + c t^2 + d t^3
\* ------------------------------------------------------------------------

\* the function value for a given t
Poly_f0(q, x) == FAdd(q.a, FMul(x, FAdd(q.b, FMul(x, FAdd(q.c, FMul(q.d, x))))))

\* the first derivative for a given t
Poly_f1(q, x) ==
  FAdd(q.b, FMul(x, FAdd(FMul(FromInt(2), q.c), FMul(FMul(FromInt(3), q.d), x))))

\* the second derivative for a given t
Poly_f2(q, x) == FAdd(FMul(FromInt(2), q.c), FMul(FMul(FromInt(6), q.d), x))

\* the coefficients as a sign slip in c would give them
HermiteMut(y0, y1, D0, D1) ==
  [a |-> y0,
   b |-> D0,
   c |-> FAdd(FSub(FMul(FromInt(3), FSub(y1, y0)), FMul(FromInt(2), D0)), D1),
   d |-> FAdd(FAdd(FMul(FromInt(2), FSub(y0, y1)), D0), D1)]

\* the coefficients Set assigns before it zeroes the small ones
Hermite(y0, y1, D0, D1) ==
  [a |-> y0,
   b |-> D0,
   c |-> FSub(FSub(FMul(FromInt(3), FSub(y1, y0)), FMul(FromInt(2), D0)), D1),
   d |-> FAdd(FAdd(FMul(FromInt(2), FSub(y0, y1)), D0), D1)]

CoeffSum(q) == FAdd(FAdd(FAdd(Abs(q.a), Abs(q.b)), Abs(q.c)), Abs(q.d))

\* Set polynomial coefficient values
Set(y0, y1, D0, D1) ==
  Once(Hermite(y0, y1, D0, D1), LAMBDA q :
  Once(CoeffSum(q), LAMBDA sum :
    [a |-> ZeroSmall(q.a, sum, EPSILON),
     b |-> ZeroSmall(q.b, sum, EPSILON),
     c |-> ZeroSmall(q.c, sum, EPSILON),
     d |-> ZeroSmall(q.d, sum, EPSILON)]))

\* ------------------------------------------------------------------------
\* CubicSpline: one segment [idx, p0, p1, px, py]; a V2 is <<X, Y>>
\* ------------------------------------------------------------------------

Spline_f0(seg, x) == <<Poly_f0(seg.px, x), Poly_f0(seg.py, x)>>
Spline_f1(seg, x) == <<Poly_f1(seg.px, x), Poly_f1(seg.py, x)>>
Spline_f2(seg, x) == <<Poly_f2(seg.px, x), Poly_f2(seg.py, x)>>

NR_TOLERANCE == <<1, 10000>>
NR_MAXITERS == 10

\* the numerator and denominator of the Newton-Raphson correction
NR_Num(seg, x, q) ==
  Once(<<Spline_f0(seg, x), Spline_f1(seg, x)>>,
       LAMBDA f :
         LET dx == FSub(f[1][1], q[1])
             dy == FSub(f[1][2], q[2])
         IN  FAdd(FMul(dx, f[2][1]), FMul(dy, f[2][2])))

NR_Den(seg, x, q) ==
  Once(<<Spline_f0(seg, x), Spline_f1(seg, x), Spline_f2(seg, x)>>,
       LAMBDA f :
         LET dx == FSub(f[1][1], q[1])
             dy == FSub(f[1][2], q[2])
         IN  FAdd(FAdd(FAdd(FMul(dx, f[3][1]), FMul(f[2][1], f[2][1])), FMul(dy, f[3][2])),
                  FMul(f[2][2], f[2][2])))

\* The local t values a Newton step may return are taken on a grid of
\* 1/Scale, from StepSpan grid points below 0 to StepSpan above 1.
Scale == 2
StepSpan == 3

StepGrid == {Norm(k, Scale) : k \in (-StepSpan)..(Scale + StepSpan)}

\* The values NR_Iterate(t, p) may return on a segment.  A NaN argument and
\* a zero denominator give the IEEE result (NaN, or an infinity); in every
\* other case the quotient is a finite float whose value the model does not
\* track: any grid value.
NR_Iterate(seg, x, q) ==
  IF IsNaN(x) THEN {NaN}
  ELSE IF NR_Den(seg, x, q) = Zero
       THEN {FSub(x, FDiv(NR_Num(seg, x, q), Zero))}
       ELSE StepGrid

\* ------------------------------------------------------------------------
\* CubicSplineSDF2: [spline, maxiters, bb].  A *CubicSpline is modelled by
\* the position of the segment in spline (Go index).
\* ------------------------------------------------------------------------

\* int(t) of a NaN is implementation-specific: amd64 gives the most negative
\* int (here: a negative index), arm64 gives 0.
IntOfNaN == {-1, 0}

\* Find as it would be without the correction for the last spline
FindMut(sp, x, ni) ==
  LET n == Len(sp)
      c == Clamp(x, Zero, FromInt(n))
      j == IF IsNaN(c) THEN ni ELSE c[1] \div c[2]
  IN  [panic |-> ~(j \in 0..(n - 1)), cs |-> j, t |-> FSub(c, FromInt(j))]

\* Return the spline and t value for a given t value.  ni is what int()
\* makes of a NaN.  Indexing outside the slice panics.
Find(sp, x, ni) ==
  LET n == Len(sp)
      c == Clamp(x, Zero, FromInt(n))
      j == IF IsNaN(c) THEN ni ELSE c[1] \div c[2]
      u == FSub(c, FromInt(j))
      k == IF j = n THEN j - 1 ELSE j
      v == IF j = n THEN One ELSE u
  IN  [panic |-> ~(k \in 0..(n - 1)), cs |-> k, t |-> v]

F0(sp, x, ni) ==
  Once(Find(sp, x, ni),
       LAMBDA f : IF f.panic THEN [panic |-> TRUE, v |-> <<NaN, NaN>>]
                  ELSE [panic |-> FALSE, v |-> Spline_f0(sp[f.cs + 1], f.t)])

F1(sp, x, ni) ==
  Once(Find(sp, x, ni),
       LAMBDA f : IF f.panic THEN [panic |-> TRUE, v |-> <<NaN, NaN>>]
                  ELSE [panic |-> FALSE, v |-> Spline_f1(sp[f.cs + 1], f.t)])

F2(sp, x, ni) ==
  Once(Find(sp, x, ni),
       LAMBDA f : IF f.panic THEN [panic |-> TRUE, v |-> <<NaN, NaN>>]
                  ELSE [panic |-> FALSE, v |-> Spline_f2(sp[f.cs + 1], f.t)])

\* the distance squared between q and the point of the curve at x
D0(sp, x, q, ni) ==
  Once(F0(sp, x, ni),
       LAMBDA f0 :
         LET dx == FSub(f0.v[1], q[1])
             dy == FSub(f0.v[2], q[2])
         IN  [panic |-> f0.panic, v |-> FAdd(FMul(dx, dx), FMul(dy, dy))])

D1(sp, x, q, ni) ==
  Once(<<F0(sp, x, ni), F1(sp, x, ni)>>,
       LAMBDA f :
         LET dx == FSub(f[1].v[1], q[1])
             dy == FSub(f[1].v[2], q[2])
         IN  [panic |-> f[1].panic,
              v |-> FMul(FromInt(2), FAdd(FMul(dx, f[2].v[1]), FMul(dy, f[2].v[2])))])

D2(sp, x, q, ni) ==
  Once(<<F0(sp, x, ni), F1(sp, x, ni), F2(sp, x, ni)>>,
       LAMBDA f :
         LET dx == FSub(f[1].v[1], q[1])
             dy == FSub(f[1].v[2], q[2])
         IN  [panic |-> f[1].panic,
              v |-> FMul(FromInt(2),
                      FAdd(FAdd(FAdd(FMul(dx, f[3].v[1]), FMul(f[2].v[1], f[2].v[1])),
                                FMul(dy, f[3].v[2])),
                           FMul(f[2].v[2], f[2].v[2])))])

\* the zero value CubicSplineSDF2{}
NoSpline == [spline |-> <<>>, maxiters |-> 0, bb |-> {}]

\* the rows of the spline's tridiagonal matrix with the end rows left like
\* the interior ones
SplineMatrixMut(n) == [j \in 1..n |-> <<One, FromInt(4), One>>]

\* the rows of the tridiagonal matrix CubicSpline2D builds for n knots
SplineMatrix(n) ==
  [j \in 1..n |-> IF j = 1 THEN <<Zero, FromInt(2), One>>
                  ELSE IF j = n THEN <<One, FromInt(2), Zero>>
                  ELSE <<One, FromInt(4), One>>]

\* its right hand side for coordinate c (1: X, 2: Y) of the knots
SplineRhs(k, c) ==
  LET n == Len(k) IN
  [j \in 1..n |->
     IF j = 1 THEN FMul(FromInt(3), FSub(k[2][c], k[1][c]))
     ELSE IF j = n THEN FMul(FromInt(3), FSub(k[n][c], k[n - 1][c]))
     ELSE FMul(FromInt(3), FSub(k[j + 1][c], k[j - 1][c]))]

\* The bounding box is kept as the set of the segments (idx) whose boxes
\* were united: a segment's box has the curve's stationary points for
\* corners, roots of a quadratic that the model does not evaluate.
SplineBoxes(sp) == {sp[j].idx : j \in 1..Len(sp)}

CubicSpline2D(k) ==
  IF Len(k) < 2 THEN [panic |-> "cubic splines need at least 2 knots", s |-> NoSpline]
  ELSE
    LET n == Len(k) IN
    Once(TriDiagonal(SplineMatrix(n), SplineRhs(k, 1)), LAMBDA xx :
    Once(TriDiagonal(SplineMatrix(n), SplineRhs(k, 2)), LAMBDA xy :
      IF xx.panic # "" THEN [panic |-> xx.panic, s |-> NoSpline]
      ELSE IF xy.panic # "" THEN [panic |-> xy.panic, s |-> NoSpline]
      ELSE Once([j \in 1..(n - 1) |->
                   [idx |-> j - 1,
                    p0 |-> k[j],
                    p1 |-> k[j + 1],
                    px |-> Set(k[j][1], k[j + 1][1], xx.x[j], xx.x[j + 1]),
                    py |-> Set(k[j][2], k[j + 1][2], xy.x[j], xy.x[j + 1])]],
                LAMBDA sp :
                  [panic |-> "",
                   s |-> [spline |-> sp, maxiters |-> NR_MAXITERS,
                          bb |-> SplineBoxes(sp)]])))

\* the vertices Polygonize adds from iteration j on, x being the global t
RECURSIVE PolyVertices(_, _, _, _, _, _)
PolyVertices(sp, n, j, x, dt, ni) ==
  IF j >= n THEN <<>>
  ELSE <<F0(sp, x, ni).v>> \o PolyVertices(sp, n, j + 1, FAdd(x, dt), dt, ni)

\* Return a polygon approximating the cubic spline
Polygonize(sp, n, ni) ==
  PolyVertices(sp, n, 0, Zero, FDiv(FromInt(Len(sp)), FromInt(n - 1)), ni)

\* ------------------------------------------------------------------------
\* State
\* ------------------------------------------------------------------------

VARIABLES
  tri,    \* a call of TriDiagonal: its arguments m, d and its outcome
  poly,   \* a CubicPolynomial and the arguments of the Set that filled it
  knot,   \* the knots handed to CubicSpline2D
  s,      \* the CubicSplineSDF2: spline, maxiters, bb (NoSpline before)
  pc,     \* where the caller of the spline is
  p,      \* Evaluate: the query point
  cs,     \* Evaluate: the current spline, as its position in s.spline
  t,      \* Evaluate: the local t
  t_old,  \* Evaluate: t before the Newton step
  i,      \* Evaluate: the iteration counter
  ret     \* what the last call returned

vars == <<tri, poly, knot, s, pc, p, cs, t, t_old, i, ret>>

NoRet == [op |-> "none"]
NoTri == [pc |-> "off", m |-> <<>>, d |-> <<>>, xs |-> <<>>, res |-> Panic("")]
NoPoly == [pc |-> "off", arg |-> <<>>, a |-> Zero, b |-> Zero, c |-> Zero, d |-> Zero]

\* ------------------------------------------------------------------------
\* TriDiagonal called on bounded systems
\* ------------------------------------------------------------------------

MaxTriN == 3

TriRows == {<<FromInt(a), FromInt(b), FromInt(c)>> : a \in {0, 1}, b \in {0, 1, 2}, c \in {0, 1}}

\* two solution vectors of each length: all ones, and -2, 1/2, -2, ...
XStar(n, k) ==
  [j \in 1..n |-> IF k = 1 THEN One ELSE IF j % 2 = 1 THEN FromInt(-2) ELSE <<1, 2>>]

\* row j of the product M.x of the tridiagonal matrix M (rows m) and x
RowTimes(m, x, j) ==
  FAdd(FAdd(IF j > 1 THEN FMul(m[j][1], x[j - 1]) ELSE Zero,
            FMul(m[j][2], x[j])),
       IF j < Len(m) THEN FMul(m[j][3], x[j + 1]) ELSE Zero)

MulVec(m, x) == [j \in 1..Len(m) |-> RowTimes(m, x, j)]

InitTri ==
  /\ \E n \in 0..MaxTriN : \E m \in [1..n -> TriRows] : \E k \in 1..2 : \E extra \in BOOLEAN :
       tri = [pc |-> "input", m |-> m, xs |-> XStar(n, k),
              d |-> IF extra THEN Append(MulVec(m, XStar(n, k)), One)
                             ELSE MulVec(m, XStar(n, k)),
              res |-> Panic("")]
  /\ poly = NoPoly
  /\ knot = <<>> /\ s = NoSpline /\ pc = "off" /\ p = <<Zero, Zero>>
  /\ cs = 0 /\ t = Zero /\ t_old = Zero /\ i = 0 /\ ret = NoRet

TriCall ==
  /\ tri.pc = "input"
  /\ tri' = [tri EXCEPT !.pc = "done", !.res = TriDiagonal(tri.m, tri.d)]
  /\ UNCHANGED <<poly, knot, s, pc, p, cs, t, t_old, i, ret>>

NextTri == TriCall

SpecTri == InitTri /\ [][NextTri]_vars

\* the leading principal minor of order k of the tridiagonal matrix:
\* the elimination denominator of Go row i is Minor(m, i+1) / Minor(m, i)
RECURSIVE Minor(_, _)
Minor(m, k) ==
  IF k = 0 THEN One
  ELSE IF k = 1 THEN m[1][2]
  ELSE FSub(FMul(m[k][2], Minor(m, k - 1)),
            FMul(FMul(m[k][1], m[k - 1][3]), Minor(m, k - 2)))

TriWellPosed(m, d) ==
  /\ Len(m) >= 1
  /\ Len(d) = Len(m)
  /\ m[1][1] = Zero
  /\ m[Len(m)][3] = Zero
  /\ \A k \in 1..Len(m) : Minor(m, k) # Zero

\* C4: TriDiagonal returns a vector (one entry per row) exactly when the
\* sizes agree, m[0].X = 0, m[n-1].Z = 0, m[0].Y # 0 and every elimination
\* denominator is nonzero; in every other case it panics and returns nothing.
C4_PanicIffIllPosed ==
  tri.pc = "done" =>
    /\ (tri.res.panic = "") <=> TriWellPosed(tri.m, tri.d)
    /\ tri.res.panic = "" => Len(tri.res.x) = Len(tri.m)
    /\ tri.res.panic # "" => tri.res.x = <<>>

\* a call that panicked on a zero denominator met in the elimination loop
C4_Witness ==
  /\ tri.pc = "done"
  /\ tri.res.panic = "denom == 0"
  /\ Len(tri.m) = 3

\* C5: when TriDiagonal(M, M.x*) does not panic it returns x*.
C5_SolvesSystem ==
  (tri.pc = "done" /\ tri.res.panic = "" /\ tri.d = MulVec(tri.m, tri.xs))
    => tri.res.x = tri.xs

\* a solved system of three rows whose solution is not all ones
C5_Witness ==
  /\ tri.pc = "done"
  /\ tri.res.panic = ""
  /\ Len(tri.m) = 3
  /\ tri.m[2][1] # Zero /\ tri.m[2][3] # Zero
  /\ tri.xs[1] = FromInt(-2)
  /\ tri.res.x = tri.xs

\* ------------------------------------------------------------------------
\* CubicPolynomial.Set called on bounded arguments
\* ------------------------------------------------------------------------

MaxPolyVal == 2
PolyBig == 3000

PolyVals == {FromInt(v) : v \in (-MaxPolyVal)..MaxPolyVal} \cup {FromInt(PolyBig), <<1, 2>>}

InitPoly ==
  /\ \E y0 \in PolyVals, y1 \in PolyVals, dd0 \in PolyVals, dd1 \in PolyVals :
       poly = [NoPoly EXCEPT !.pc = "input", !.arg = <<y0, y1, dd0, dd1>>]
  /\ tri = NoTri
  /\ knot = <<>> /\ s = NoSpline /\ pc = "off" /\ p = <<Zero, Zero>>
  /\ cs = 0 /\ t = Zero /\ t_old = Zero /\ i = 0 /\ ret = NoRet

PolySet ==
  /\ poly.pc = "input"
  /\ LET q == Set(poly.arg[1], poly.arg[2], poly.arg[3], poly.arg[4])
     IN  poly' = [poly EXCEPT !.pc = "set", !.a = q.a, !.b = q.b, !.c = q.c, !.d = q.d]
  /\ UNCHANGED <<tri, knot, s, pc, p, cs, t, t_old, i, ret>>

NextPoly == PolySet

SpecPoly == InitPoly /\ [][NextPoly]_vars

PolyCoeffs == [a |-> poly.a, b |-> poly.b, c |-> poly.c, d |-> poly.d]

\* how far the fitted polynomial is from the four values it was fitted to
PolyErr ==
  <<Abs(FSub(Poly_f0(PolyCoeffs, Zero), poly.arg[1])),
    Abs(FSub(Poly_f0(PolyCoeffs, One), poly.arg[2])),
    Abs(FSub(Poly_f1(PolyCoeffs, Zero), poly.arg[3])),
    Abs(FSub(Poly_f1(PolyCoeffs, One), poly.arg[4]))>>

PolyRawSum == CoeffSum(Hermite(poly.arg[1], poly.arg[2], poly.arg[3], poly.arg[4]))

PolySnapped == PolyCoeffs # Hermite(poly.arg[1], poly.arg[2], poly.arg[3], poly.arg[4])

\* C6 as stated: after Set, f0(0), f0(1), f1(0), f1(1) are within epsilon of
\* y0, y1, D0, D1.
C6_WithinEpsilon ==
  poly.pc = "set" => \A k \in 1..4 : FLt(PolyErr[k], EPSILON)

\* C6 as amended: after Set the four values are exact when no coefficient
\* was zeroed, and otherwise each is off by less than 6 * EPSILON * (|a| +
\* |b| + |c| + |d|), the sum taken over the coefficients before zeroing.
C6_WithinEpsilonOfSum ==
  poly.pc = "set" =>
    /\ ~PolySnapped => \A k \in 1..4 : PolyErr[k] = Zero
    /\ \A k \in 1..4 :
         \/ PolyErr[k] = Zero
         \/ FLt(PolyErr[k], FMul(FromInt(6), FMul(EPSILON, PolyRawSum)))

\* a fit in which the slope D0 = 1 was zeroed, so that f1(0) = 0
C6_Witness ==
  /\ poly.pc = "set"
  /\ poly.arg[3] = One
  /\ poly.b = Zero
  /\ PolyErr[3] = One

\* ------------------------------------------------------------------------
\* A spline built from bounded knots, and the queries on it
\* ------------------------------------------------------------------------

MaxShort == 3
MaxKnots == 11
MaxPoly == 3

KnotPts == {<<Zero, Zero>>, <<One, One>>, <<FromInt(2), Zero>>}

\* every knot sequence of up to MaxShort points, and the longer ones that
\* run along the x axis in unit steps
KnotInputs ==
  (UNION {[1..n -> KnotPts] : n \in 0..MaxShort})
    \cup {[j \in 1..n |-> <<FromInt(j - 1), Zero>>] : n \in (MaxShort + 1)..MaxKnots}

QueryPoints == {<<Zero, Zero>>, <<One, FromInt(-1)>>}

\* the global t values the queries are called with: the grid points from
\* one segment before the spline to one segment after it
QueryTs == {Norm(k, Scale) : k \in (-Scale)..((Len(s.spline) + 1) * Scale)}

\* n taken from the spline instead of the fixed value
EvalNMut == Len(s.spline)

\* n := 9 of Evaluate
EvalN == 9

Init ==
  /\ knot \in KnotInputs
  /\ s = NoSpline
  /\ pc = "new"
  /\ tri = NoTri /\ poly = NoPoly
  /\ p = <<Zero, Zero>> /\ cs = 0 /\ t = Zero /\ t_old = Zero /\ i = 0
  /\ ret = NoRet

locals == <<p, cs, t, t_old, i>>

ClearLocals == p' = <<Zero, Zero>> /\ cs' = 0 /\ t' = Zero /\ t_old' = Zero /\ i' = 0

\* a call returns v to the caller, or panics and ends the program
Return(op, panics, v) ==
  /\ ret' = [op |-> op, panic |-> panics, v |-> v]
  /\ pc' = IF panics THEN "panicked" ELSE "returned"

\* the caller has the returned value and is free to make its next call
TakeResult ==
  /\ pc = "returned"
  /\ pc' = "idle"
  /\ ret' = NoRet
  /\ UNCHANGED <<tri, poly, knot, s, locals>>

\* CubicSpline2D(knot)
Construct ==
  /\ pc = "new"
  /\ \E r \in {CubicSpline2D(knot)} :
       /\ s' = r.s
       /\ Return("CubicSpline2D", r.panic # "", r.panic)
  /\ UNCHANGED <<tri, poly, knot, locals>>

\* cs.idx
CsIdx == s.spline[cs + 1].idx

\* Evaluate(q), up to the loop: the initial estimate
EvaluateCallMut ==
  /\ pc = "idle"
  /\ \E q \in QueryPoints, ni \in IntOfNaN :
       \E f \in {Find(s.spline, FDiv(FromInt(EvalN), FromInt(2)), ni)} :
           /\ ~f.panic
           /\ p' = q /\ cs' = f.cs /\ t' = f.t /\ i' = 0 /\ t_old' = Zero
  /\ s' = [s EXCEPT !.maxiters = IF s.maxiters > 1 THEN s.maxiters - 1 ELSE NR_MAXITERS]
  /\ pc' = "loop"
  /\ ret' = NoRet
  /\ UNCHANGED <<tri, poly, knot>>

EvaluateCall ==
  /\ pc = "idle"
  /\ \E q \in QueryPoints, ni \in IntOfNaN :
       \E f \in {Find(s.spline, FDiv(FromInt(EvalN), FromInt(2)), ni)} :
           IF f.panic
           THEN Return("Evaluate", TRUE, <<>>) /\ UNCHANGED locals
           ELSE /\ p' = q /\ cs' = f.cs /\ t' = f.t /\ i' = 0 /\ t_old' = Zero
                /\ pc' = "loop"
                /\ ret' = NoRet
  /\ UNCHANGED <<tri, poly, knot, s>>

\* one pass of the loop, up to the tests on t: the Newton step
NewtonStep ==
  /\ pc = "loop"
  /\ i < s.maxiters
  /\ t_old' = t
  /\ t' \in NR_Iterate(s.spline[cs + 1], t, p)
  /\ pc' = "branch"
  /\ UNCHANGED <<tri, poly, knot, s, p, cs, i, ret>>

\* i < s.maxiters fails: the loop ends
LoopExhausted ==
  /\ pc = "loop"
  /\ ~(i < s.maxiters)
  /\ pc' = "exit"
  /\ UNCHANGED <<tri, poly, knot, s, locals, ret>>

\* the handoff without Find: the step's t is kept on the same segment
FindOtherMut ==
  cs' = cs /\ t' = t /\ i' = i + 1 /\ pc' = "loop" /\ ret' = ret

\* cs, t = s.Find(float64(cs.idx) + t), then the next pass
FindOther ==
  \E ni \in IntOfNaN :
    \E f \in {Find(s.spline, FAdd(FromInt(CsIdx), t), ni)} :
        IF f.panic
        THEN Return("Evaluate", TRUE, <<>>) /\ UNCHANGED <<cs, t, i>>
        ELSE cs' = f.cs /\ t' = f.t /\ i' = i + 1 /\ pc' = "loop" /\ ret' = ret

\* t < 0 on the first spline: no previous splines
PrevClamp ==
  /\ pc = "branch"
  /\ FLt(t, Zero)
  /\ CsIdx = 0
  /\ t' = Zero
  /\ pc' = "exit"
  /\ UNCHANGED <<tri, poly, knot, s, p, cs, t_old, i, ret>>

\* t < 0: find the previous spline
PrevFind ==
  /\ pc = "branch"
  /\ FLt(t, Zero)
  /\ CsIdx # 0
  /\ FindOther
  /\ UNCHANGED <<tri, poly, knot, s, p, t_old>>

\* t > 1 and cs.idx == n-1: "on the last spline"
NextClamp ==
  /\ pc = "branch"
  /\ ~FLt(t, Zero) /\ FGt(t, One)
  /\ CsIdx = EvalN - 1
  /\ t' = One
  /\ pc' = "exit"
  /\ UNCHANGED <<tri, poly, knot, s, p, cs, t_old, i, ret>>

\* t > 1: find the next spline
NextFind ==
  /\ pc = "branch"
  /\ ~FLt(t, Zero) /\ FGt(t, One)
  /\ CsIdx # EvalN - 1
  /\ FindOther
  /\ UNCHANGED <<tri, poly, knot, s, p, t_old>>

\* Abs(t-t_old) < NR_TOLERANCE*Abs(t)
WithinTolerance == FLt(Abs(FSub(t, t_old)), FMul(NR_TOLERANCE, Abs(t)))

\* on the same spline, the t estimate within tolerance
SameConverged ==
  /\ pc = "branch"
  /\ ~FLt(t, Zero) /\ ~FGt(t, One)
  /\ WithinTolerance
  /\ pc' = "exit"
  /\ UNCHANGED <<tri, poly, knot, s, locals, ret>>

\* on the same spline, not within tolerance: the next pass
SameContinue ==
  /\ pc = "branch"
  /\ ~FLt(t, Zero) /\ ~FGt(t, One)
  /\ ~WithinTolerance
  /\ i' = i + 1
  /\ pc' = "loop"
  /\ UNCHANGED <<tri, poly, knot, s, p, cs, t, t_old, ret>>

\* after the loop: t += float64(cs.idx); dmin := math.Sqrt(s.D0(t, p)).
\* The value returned is kept as the global t and the square of dmin.
EvaluateReturn ==
  /\ pc = "exit"
  /\ \E ni \in IntOfNaN :
       \E g \in {FAdd(t, FromInt(CsIdx))} :
         \E d \in {D0(s.spline, g, p, ni)} :
           Return("Evaluate", d.panic, [t |-> g, d2 |-> d.v])
  /\ ClearLocals
  /\ UNCHANGED <<tri, poly, knot, s>>

FindCall ==
  /\ pc = "idle"
  /\ \E x \in QueryTs, ni \in IntOfNaN :
       \E f \in {Find(s.spline, x, ni)} :
           Return("Find", f.panic,
                  [arg |-> x, idx |-> IF f.panic THEN f.cs ELSE s.spline[f.cs + 1].idx,
                   t |-> f.t])
  /\ UNCHANGED <<tri, poly, knot, s, locals>>

F0Call ==
  /\ pc = "idle"
  /\ \E x \in QueryTs, ni \in IntOfNaN :
       \E f \in {F0(s.spline, x, ni)} : Return("F0", f.panic, [arg |-> x, v |-> f.v])
  /\ UNCHANGED <<tri, poly, knot, s, locals>>

F1Call ==
  /\ pc = "idle"
  /\ \E x \in QueryTs, ni \in IntOfNaN :
       \E f \in {F1(s.spline, x, ni)} : Return("F1", f.panic, [arg |-> x, v |-> f.v])
  /\ UNCHANGED <<tri, poly, knot, s, locals>>

F2Call ==
  /\ pc = "idle"
  /\ \E x \in QueryTs, ni \in IntOfNaN :
       \E f \in {F2(s.spline, x, ni)} : Return("F2", f.panic, [arg |-> x, v |-> f.v])
  /\ UNCHANGED <<tri, poly, knot, s, locals>>

D0Call ==
  /\ pc = "idle"
  /\ \E x \in QueryTs, q \in QueryPoints, ni \in IntOfNaN :
       \E f \in {D0(s.spline, x, q, ni)} :
         Return("D0", f.panic, [arg |-> <<x, q>>, v |-> f.v])
  /\ UNCHANGED <<tri, poly, knot, s, locals>>

D1Call ==
  /\ pc = "idle"
  /\ \E x \in QueryTs, q \in QueryPoints, ni \in IntOfNaN :
       \E f \in {D1(s.spline, x, q, ni)} :
         Return("D1", f.panic, [arg |-> <<x, q>>, v |-> f.v])
  /\ UNCHANGED <<tri, poly, knot, s, locals>>

D2Call ==
  /\ pc = "idle"
  /\ \E x \in QueryTs, q \in QueryPoints, ni \in IntOfNaN :
       \E f \in {D2(s.spline, x, q, ni)} :
         Return("D2", f.panic, [arg |-> <<x, q>>, v |-> f.v])
  /\ UNCHANGED <<tri, poly, knot, s, locals>>

BoundingBoxCall ==
  /\ pc = "idle"
  /\ Return("BoundingBox", FALSE, s.bb)
  /\ UNCHANGED <<tri, poly, knot, s, locals>>

PolygonizeCall ==
  /\ pc = "idle"
  /\ \E n \in 0..MaxPoly, ni \in IntOfNaN :
       Return("Polygonize", FALSE, [arg |-> n, v |-> Polygonize(s.spline, n, ni)])
  /\ UNCHANGED <<tri, poly, knot, s, locals>>

Next ==
  \/ Construct
  \/ TakeResult
  \/ EvaluateCall
  \/ NewtonStep
  \/ LoopExhausted
  \/ PrevClamp
  \/ PrevFind
  \/ NextClamp
  \/ NextFind
  \/ SameConverged
  \/ SameContinue
  \/ EvaluateReturn
  \/ FindCall
  \/ F0Call
  \/ F1Call
  \/ F2Call
  \/ D0Call
  \/ D1Call
  \/ D2Call
  \/ BoundingBoxCall
  \/ PolygonizeCall

Spec == Init /\ [][Next]_vars

\* ------------------------------------------------------------------------
\* Properties of the spline and its queries
\* ------------------------------------------------------------------------

\* C1 as stated: Evaluate takes at most maxiters Newton steps and always
\* returns a distance; it never ends in an error.
C1_EvaluateAlwaysReturns ==
  /\ pc = "branch" => i < NR_MAXITERS
  /\ ~(ret.op = "Evaluate" /\ ret.panic)

\* the global t that Find clamps x to, for a spline of n knots
ClampedTo(x, n) ==
  IF FLt(x, Zero) THEN Zero ELSE IF FGt(x, FromInt(n - 1)) THEN FromInt(n - 1) ELSE x

\* C2: for a spline of N knots Find(t) returns a segment idx in [0, N-2] and
\* a local t in [0, 1] with idx + local t = t clamped to [0, N-1]; idx is the
\* integer part of the clamped t, except at N-1, where Find returns the
\* last segment and local t = 1.
C2_FindLocates ==
  ret.op = "Find" =>
    LET n == Len(knot)
        c == ClampedTo(ret.v.arg, n)
    IN  /\ ~ret.panic
        /\ ret.v.idx \in 0..(n - 2)
        /\ FLe(Zero, ret.v.t) /\ FLe(ret.v.t, One)
        /\ FAdd(FromInt(ret.v.idx), ret.v.t) = c
        /\ IF c = FromInt(n - 1)
           THEN ret.v.idx = n - 2 /\ ret.v.t = One
           ELSE ret.v.idx = c[1] \div c[2]

\* Find called at the upper end of a spline of at least 3 knots
C2_Witness ==
  /\ ret.op = "Find"
  /\ Len(knot) >= 3
  /\ ret.v.arg = FromInt(Len(knot) - 1)
  /\ ret.v.idx = Len(knot) - 2
  /\ ret.v.t = One

\* C3: with 0 or 1 knots CubicSpline2D panics and no spline exists, before
\* or after; with 2 or more knots it returns a spline of len(knot)-1 segments.
C3_ConstructOrPanic ==
  /\ pc = "new" => s = NoSpline
  /\ pc # "new" =>
       IF Len(knot) < 2
       THEN pc = "panicked" /\ ret.op = "CubicSpline2D" /\ ret.panic /\ s = NoSpline
       ELSE /\ ~(ret.op = "CubicSpline2D" /\ ret.panic)
            /\ Len(s.spline) = Len(knot) - 1

\* CubicSpline2D has panicked on a single knot
C3_Witness ==
  /\ Len(knot) = 1
  /\ pc = "panicked"
  /\ ret.op = "CubicSpline2D"
  /\ s = NoSpline

C8_StopsExactlyOnLastSpline ==
  [][(pc = "branch" /\ FGt(t, One)) =>
       IF CsIdx = Len(s.spline) - 1
       THEN pc' = "exit" /\ t' = One /\ cs' = cs
       ELSE /\ pc' = "loop"
            /\ i' = i + 1
            /\ \E ni \in IntOfNaN :
                 LET f == Find(s.spline, FAdd(FromInt(CsIdx), t), ni)
                 IN  cs' = f.cs /\ t' = f.t]_vars

\* C9 as stated: the first Newton step is taken on segment n/2 = 4 at
\* local t = 0.5.
C9_StartsMidSegmentFour ==
  (pc = "loop" /\ i = 0) => (CsIdx = 4 /\ t = <<1, 2>>)

\* C9 as amended: the first Newton step is taken where Find(4.5) points:
\* segment 4 at local t = 0.5 on a spline of 5 or more segments, the last
\* segment at local t = 1 on a shorter one.
C9_StartsAtFindOfHalfN ==
  (pc = "loop" /\ i = 0) =>
    IF Len(s.spline) >= 5
    THEN CsIdx = 4 /\ t = <<1, 2>>
    ELSE CsIdx = Len(s.spline) - 1 /\ t = One

\* Evaluate is about to take its first step on a spline of two segments
C9_Witness ==
  /\ pc = "loop"
  /\ i = 0
  /\ Len(s.spline) = 2
  /\ CsIdx = 1
  /\ t = One

\* C10: while Evaluate iterates, cs is a segment of the spline with
\* cs.idx its position; unless a Newton step returned NaN, the local t
\* handed to NR_Iterate is in [0, 1], no Find indexes outside the spline,
\* and the global t the distance is taken at is in [0, len(spline)].
C10_EvaluateInRange ==
  /\ pc \in {"loop", "branch", "exit"} =>
       (cs \in 0..(Len(s.spline) - 1) /\ CsIdx = cs)
  /\ (pc = "loop" /\ ~IsNaN(t)) => (FLe(Zero, t) /\ FLe(t, One))
  /\ (pc = "branch" /\ ~IsNaN(t_old)) => (FLe(Zero, t_old) /\ FLe(t_old, One))
  /\ ret.op = "Evaluate" =>
       /\ ret.v # <<>>
       /\ ~IsNaN(ret.v.t) =>
            (~ret.panic /\ FLe(Zero, ret.v.t) /\ FLe(ret.v.t, FromInt(Len(s.spline))))

\* Evaluate, started on segment 4, has been handed back to the start of
\* the first segment
C10_Witness ==
  /\ pc = "loop"
  /\ i > 0
  /\ Len(s.spline) >= 5
  /\ cs = 0
  /\ t = Zero

====
